---------------------------- MODULE Spec2Model ----------------------------
(***************************************************************************)
(* Model of the overlay ingestion pipeline:                                *)
(*   adk-project/ingest/pipeline_ingest.py          (main and the loaders) *)
(*   adk-project/ingest/vector_store/elastic_search.py (client factories)  *)
(*   adk-project/ingest/splitter/text_splitter.py   (splitter factory)     *)
(* One run of main() is a sequential process; pc is its position.  The     *)
(* environment (variables of the process environment, the file system,     *)
(* the outcome of calls to external services) is drawn from small sets.    *)
(***************************************************************************)
EXTENDS Integers, Sequences, FiniteSets, TLC

VARIABLES
    pc,            \* position of main()
    outcome,       \* "running", "ok" (main returned) or the exception that left main
    env,           \* process environment: BATCH_SIZE, ES_URL, ES_USER, ES_PASS
    tlsEnv,        \* process environment and file system read by _resolve_tls_kwargs
    baseExists,    \* base_dir.exists()
    baseEntries,   \* the entries of base_dir
    batch_size,    \* main: batch_size (0 before line 87)
    overlay_dirs,  \* main: overlay_dirs
    cur,           \* 1-based position of the for loop of line 111 in overlay_dirs
    embeddings,    \* main: embeddings (Null before create_embeddings)
    es_client,     \* main: es_client (Null before create_es_client)
    splitter,      \* main: splitter (Null before build_text_splitter)
    store,         \* main: store (Null before create_vector_store returns)
    files,         \* load_documents: the paths dir_path.rglob("*") has yielded
    pairs,         \* load_documents/main: pairs
    texts,         \* main: texts
    metas,         \* main: metas
    loaded,        \* per overlay whose load finished: len(pairs)
    calls,         \* log of the calls main made to its collaborators, in order
    inserted,      \* main: inserted
    bpos,          \* batched: i, the position of range(0, len(seq), size)
    adds,          \* the add_texts calls the index backend received, in order
    reports,       \* the progress lines of line 142
    prior          \* the chunk lists of the runs of main that ended before this one

vars == << pc, outcome, env, tlsEnv, baseExists, baseEntries, batch_size,
           overlay_dirs, cur, embeddings, es_client, splitter, store, files,
           pairs, texts, metas, loaded, calls, inserted, bpos, adds, reports,
           prior >>

\* What the insert loop of lines 137-142 writes, and what outlives a run.
loopVars == << inserted, bpos, adds, reports, prior >>

(***************************************************************************)
(* Bounds of the model.                                                    *)
(***************************************************************************)
MaxFiles == 2       \* paths rglob yields for one overlay
MaxItems == 3       \* elements of the array of a JSON file
MaxPages == 3       \* pages of a PDF file

(***************************************************************************)
(* Values.                                                                 *)
(***************************************************************************)
NONE == "<None>"                    \* an unset variable of the environment
Null == [none |-> TRUE]             \* a name of main not bound to an object yet

DefaultBatchSize == 128             \* os.getenv("BATCH_SIZE", "128")
RequestTimeout   == 60              \* request_timeout=60

\* Python truthiness of an Optional[str]: None and "" are falsy.
Truthy(v) == v # NONE /\ v # ""

\* text.strip() is empty: the text holds only whitespace.
IsBlank(t) == t \in {"", " ", "\n \n"}

\* str.lower() on the values ES_VERIFY takes in the model.
Lower(s) ==
    CASE s = "TRUE" -> "true"
      [] s = "True" -> "true"
      [] OTHER      -> s

\* The sequences without repetition over S of length at most n.
RECURSIVE Arrangements(_, _)
Arrangements(S, n) ==
    IF n = 0 THEN { << >> }
    ELSE LET shorter == Arrangements(S, n - 1)
         IN  shorter \cup { Append(s, x) : s \in shorter, x \in S }

NoRepeat(s) == \A i, j \in 1..Len(s) : i # j => s[i] # s[j]

Range(s) == { s[i] : i \in 1..Len(s) }


(***************************************************************************)
(* The file system under the base directory.                               *)
(***************************************************************************)
RAISES == "<raises>"                \* a call that raises instead of returning

\* The entries the base directory may hold: sub-directories and a plain file.
OverlayNames == {"notes", "hipoteses", "diretrizes"}

BaseEntry(n, d) == [name |-> n, isDir |-> d]

BaseCatalogue ==
    { BaseEntry(n, TRUE) : n \in OverlayNames } \cup { BaseEntry("README.md", FALSE) }

\* Python's order of the path names of the model (str comparison).
NameRank(n) ==
    CASE n = "README.md"  -> 0
      [] n = "diretrizes" -> 1
      [] n = "hipoteses"  -> 2
      [] n = "notes"      -> 3

\* A path rglob may yield.  opens: opening and reading the file succeeds;
\* pages: what each page's extract_text() returns (a str, None, or it raises);
\* text: the decoded content of a text file; json: what json.loads makes of
\* the content ("invalid": it raises) and what json.dumps returns for the
\* document or for each element of the list.
File(n, isf, sfx, op, pg, tx, js) ==
    [name |-> n, isFile |-> isf, sfx |-> sfx, opens |-> op,
     pages |-> pg, text |-> tx, json |-> js]

NoJson == [kind |-> "none", dumps |-> << >>]

FileCatalogue ==
    { File("a.pdf",       TRUE,  ".pdf",  TRUE,  <<"page one", " ", "long text">>, "", NoJson),
      File("bad.PDF",     TRUE,  ".PDF",  TRUE,  <<"cover", RAISES>>, "", NoJson),
      File("n.txt",       TRUE,  ".txt",  TRUE,  << >>, "hello world", NoJson),
      File("blank.md",    TRUE,  ".md",   TRUE,  << >>, "\n \n", NoJson),
      File("locked.txt",  TRUE,  ".txt",  FALSE, << >>, "", NoJson),
      File("items.json",  TRUE,  ".json", TRUE,  << >>, "",
           [kind |-> "list", dumps |-> <<"{\"a\": 1}", "2">>]),
      File("obj.json",    TRUE,  ".json", TRUE,  << >>, "",
           [kind |-> "object", dumps |-> <<"{\"a\": 1}">>]),
      File("broken.json", TRUE,  ".json", TRUE,  << >>, "",
           [kind |-> "invalid", dumps |-> << >>]),
      File("t.csv",       TRUE,  ".csv",  TRUE,  << >>, "x;y", NoJson),
      File("sub",         FALSE, "",      TRUE,  << >>, "", NoJson) }

\* fp.suffix.lower()
LowerSuffix(sfx) == IF sfx = ".PDF" THEN ".pdf" ELSE sfx

(***************************************************************************)
(* Loaders.  A call returns [raised, out]: raised when an exception leaves *)
(* it, and then what it had built is lost with its frame.                  *)
(***************************************************************************)
Returned(out) == [raised |-> FALSE, out |-> out]
Raised        == [raised |-> TRUE,  out |-> << >>]

\* As PdfPages with the page numbered by its position among the fragments.
RECURSIVE PdfPagesRenumbered(_, _, _)
PdfPagesRenumbered(f, i, out) ==
    IF i > Len(f.pages) THEN Returned(out)
    ELSE IF f.pages[i] = RAISES THEN Raised
    ELSE LET text == IF f.pages[i] = NONE THEN "" ELSE f.pages[i]
         IN  IF ~IsBlank(text)
             THEN PdfPagesRenumbered(f, i + 1,
                      Append(out, <<text, [source |-> f.name, page |-> Len(out) + 1]>>))
             ELSE PdfPagesRenumbered(f, i + 1, out)

\* read_pdf, lines 30-33: the loop over enumerate(reader.pages) from page i.
RECURSIVE PdfPages(_, _, _)
PdfPages(f, i, out) ==
    IF i > Len(f.pages) THEN Returned(out)
    ELSE IF f.pages[i] = RAISES THEN Raised
    ELSE LET text == IF f.pages[i] = NONE THEN "" ELSE f.pages[i]
         IN  IF ~IsBlank(text)
             THEN PdfPages(f, i + 1,
                           Append(out, <<text, [source |-> f.name, page |-> i]>>))
             ELSE PdfPages(f, i + 1, out)

read_pdf(f) == IF ~f.opens THEN Raised ELSE PdfPages(f, 1, << >>)

read_txt(f) ==
    IF ~f.opens THEN Raised
    ELSE IF ~IsBlank(f.text) THEN Returned(<< <<f.text, [source |-> f.name]>> >>)
    ELSE Returned(<< >>)

\* As JsonItems with item numbered by the position among the fragments.
RECURSIVE JsonItemsRenumbered(_, _, _)
JsonItemsRenumbered(f, idx, chunks) ==
    IF idx > Len(f.json.dumps) THEN chunks
    ELSE LET text == f.json.dumps[idx]
         IN  IF text = RAISES THEN JsonItemsRenumbered(f, idx + 1, chunks)
             ELSE IF ~IsBlank(text)
             THEN JsonItemsRenumbered(f, idx + 1,
                      Append(chunks, <<text, [source |-> f.name, item |-> Len(chunks)]>>))
             ELSE JsonItemsRenumbered(f, idx + 1, chunks)

\* read_json, lines 47-53: the loop over enumerate(data) from index idx (1-based
\* here; the metadata holds the 0-based idx of the code).  An element whose
\* json.dumps raises is passed over by the except of lines 52-53.
RECURSIVE JsonItems(_, _, _)
JsonItems(f, idx, chunks) ==
    IF idx > Len(f.json.dumps) THEN chunks
    ELSE LET text == f.json.dumps[idx]
         IN  IF text = RAISES THEN JsonItems(f, idx + 1, chunks)
             ELSE IF ~IsBlank(text)
             THEN JsonItems(f, idx + 1,
                            Append(chunks, <<text, [source |-> f.name, item |-> idx - 1]>>))
             ELSE JsonItems(f, idx + 1, chunks)

\* Lines 41-44 return [] when reading or parsing raises; the json.dumps of
\* line 55 is outside any try.
read_json(f) ==
    IF ~f.opens \/ f.json.kind = "invalid" THEN Returned(<< >>)
    ELSE IF f.json.kind = "list" THEN Returned(JsonItems(f, 1, << >>))
    ELSE LET text == f.json.dumps[1]
         IN  IF text = RAISES THEN Raised
             ELSE IF ~IsBlank(text) THEN Returned(<< <<text, [source |-> f.name]>> >>)
             ELSE Returned(<< >>)

\* load_documents, lines 68-75: the dispatch on the lower-cased suffix.
ReadFile(f) ==
    LET sfx == LowerSuffix(f.sfx)
    IN  IF sfx = ".pdf" THEN read_pdf(f)
        ELSE IF sfx \in {".txt", ".md"} THEN read_txt(f)
        ELSE IF sfx = ".json" THEN read_json(f)
        ELSE Returned(<< >>)

\* As LoadOne with the try around the whole loop: a failure loses the pairs.
LoadOneUncaught(f, ps) ==
    IF ~f.isFile THEN ps
    ELSE LET r == ReadFile(f)
         IN  IF r.raised THEN << >> ELSE ps \o r.out

\* load_documents, lines 65-77: one iteration of the loop over rglob, as a
\* function from pairs to pairs; an exception of the loader is caught.
LoadOne(f, ps) ==
    IF ~f.isFile THEN ps
    ELSE LET r == ReadFile(f)
         IN  IF r.raised THEN ps ELSE ps \o r.out

\* splitter.split_text(text): the chunks of the external recursive splitter.
\* A text over chunk_size is cut at a separator; any other text is one chunk.
split_text(text) ==
    IF text = "long text" THEN <<"long", "text">> ELSE <<text>>

\* main, lines 125-128: texts and metas built from pairs, from pair i.
RECURSIVE ChunkTexts(_, _)
ChunkTexts(ps, i) ==
    IF i > Len(ps) THEN << >>
    ELSE split_text(ps[i][1]) \o ChunkTexts(ps, i + 1)

\* As ChunkMetas with metas.append(meta) outside the loop over the chunks.
RECURSIVE ChunkMetasPerFragment(_, _)
ChunkMetasPerFragment(ps, i) ==
    IF i > Len(ps) THEN << >>
    ELSE <<ps[i][2]>> \o ChunkMetasPerFragment(ps, i + 1)

RECURSIVE ChunkMetas(_, _)
ChunkMetas(ps, i) ==
    IF i > Len(ps) THEN << >>
    ELSE [k \in 1..Len(split_text(ps[i][1])) |-> ps[i][2]] \o ChunkMetas(ps, i + 1)

\* sorted(...) of line 23: insertion of a name into a sorted sequence.
RECURSIVE SortedInsert(_, _)
SortedInsert(n, s) ==
    IF s = << >> THEN <<n>>
    ELSE IF NameRank(n) < NameRank(Head(s)) THEN <<n>> \o s
    ELSE <<Head(s)>> \o SortedInsert(n, Tail(s))

RECURSIVE Sorted(_)
Sorted(s) == IF s = << >> THEN << >> ELSE SortedInsert(Head(s), Sorted(Tail(s)))

\* list_overlay_dirs: the sub-directories among what iterdir yields, sorted.
RECURSIVE DirsOf(_)
DirsOf(listing) ==
    IF listing = << >> THEN << >>
    ELSE IF Head(listing).isDir THEN <<Head(listing).name>> \o DirsOf(Tail(listing))
    ELSE DirsOf(Tail(listing))

\* As list_overlay_dirs without the is_dir() filter.
RECURSIVE NamesOf(_)
NamesOf(listing) ==
    IF listing = << >> THEN << >> ELSE <<Head(listing).name>> \o NamesOf(Tail(listing))

list_overlay_dirs_unfiltered(listing) == Sorted(NamesOf(listing))

list_overlay_dirs(listing) == Sorted(DirsOf(listing))

(***************************************************************************)
(* The process environment.                                                *)
(***************************************************************************)
EnvVals      == {NONE, "", "set"}             \* ES_URL, ES_USER, ES_PASS
BatchEnvVals == {NONE, "2", "-1", "abc"}      \* BATCH_SIZE
IndexEnvVals == {NONE}                        \* ES_INDEX
VerifyVals   == {NONE, "true", "True", "TRUE", "false", "1"}      \* ES_VERIFY
CaPathVals   == {NONE, "", "/ca/ok.pem", "/ca/missing.pem"}       \* ES_CA_PATH
CaB64Vals    == {NONE, "", "b64-pem", "b64-broken"}               \* ES_CA_BASE64

Env == [BATCH_SIZE : BatchEnvVals, ES_URL : EnvVals, ES_USER : EnvVals,
        ES_PASS : EnvVals, ES_INDEX : IndexEnvVals]

TlsEnv == [ES_VERIFY : VerifyVals, ES_CA_PATH : CaPathVals, ES_CA_BASE64 : CaB64Vals]

\* os.getenv(name, default)
GetEnv(v, default) == IF v = NONE THEN default ELSE v

\* int(s): the strings of the model that are integer literals, and their values.
IsIntLiteral(s) == s \in {"128", "2", "-1", "800", "120", "100"}
IntOf(s) ==
    CASE s = "128" -> 128
      [] s = "2"   -> 2
      [] s = "-1"  -> -1
      [] s = "800" -> 800
      [] s = "120" -> 120
      [] s = "100" -> 100

\* os.path.exists(ca_path)
PathExists(p) == p = "/ca/ok.pem"

\* base64.b64decode(ca_b64) returns (it raises on a broken encoding)
B64Decodes(b) == b # "b64-broken"

TmpPem == "/tmp/ca.pem"                  \* pem_tmp.name

(***************************************************************************)
(* elastic_search.py                                                       *)
(***************************************************************************)
\* As resolve_tls_kwargs with the base64 CA tried before the CA path.
resolve_tls_kwargs_b64_first(t) ==
    LET verify == Lower(GetEnv(t.ES_VERIFY, "false")) = "true"
        ca_path == t.ES_CA_PATH
        ca_b64 == t.ES_CA_BASE64
    IN  IF ~verify THEN [verify_certs |-> FALSE, ssl_show_warn |-> TRUE]
        ELSE IF Truthy(ca_b64)
             THEN IF B64Decodes(ca_b64)
                  THEN [verify_certs |-> TRUE, ca_certs |-> TmpPem]
                  ELSE [verify_certs |-> TRUE]
        ELSE IF Truthy(ca_path) /\ PathExists(ca_path)
             THEN [verify_certs |-> TRUE, ca_certs |-> ca_path]
        ELSE [verify_certs |-> TRUE]

resolve_tls_kwargs(t) ==
    LET verify == Lower(GetEnv(t.ES_VERIFY, "false")) = "true"
        ca_path == t.ES_CA_PATH
        ca_b64 == t.ES_CA_BASE64
    IN  IF ~verify THEN [verify_certs |-> FALSE, ssl_show_warn |-> TRUE]
        ELSE IF Truthy(ca_path) /\ PathExists(ca_path)
             THEN [verify_certs |-> TRUE, ca_certs |-> ca_path]
        ELSE IF Truthy(ca_b64)
             THEN IF B64Decodes(ca_b64)
                  THEN [verify_certs |-> TRUE, ca_certs |-> TmpPem]
                  ELSE [verify_certs |-> TRUE]
        ELSE [verify_certs |-> TRUE]

\* As create_es_client without the test of the password.
create_es_client_no_pwd_check(e, t) ==
    LET url == e.ES_URL
        user == e.ES_USER
        pwd == e.ES_PASS
    IN  IF ~Truthy(url) \/ ~Truthy(user) THEN Raised
        ELSE Returned([hosts |-> <<url>>, basic_auth |-> <<user, pwd>>,
                       request_timeout |-> RequestTimeout,
                       tls |-> resolve_tls_kwargs(t)])

\* Raised stands for the RuntimeError of line 46.
create_es_client(e, t) ==
    LET url == e.ES_URL
        user == e.ES_USER
        pwd == e.ES_PASS
    IN  IF ~Truthy(url) \/ ~Truthy(user) \/ ~Truthy(pwd) THEN Raised
        ELSE Returned([hosts |-> <<url>>, basic_auth |-> <<user, pwd>>,
                       request_timeout |-> RequestTimeout,
                       tls |-> resolve_tls_kwargs(t)])

create_embeddings(model_name) ==
    [model_name |-> GetEnv(model_name, "sentence-transformers/all-MiniLM-L6-v2")]

\* The store is bound to ES_INDEX; the function has two parameters.
create_vector_store(client, emb, e) ==
    LET index_name == GetEnv(e.ES_INDEX, "your_index_name")
    IN  << [embedding |-> emb, index_name |-> index_name, es_connection |-> client],
           index_name >>

CreateVectorStoreParams == 2        \* def create_vector_store(es_client, embeddings)
CreateVectorStoreArgs   == 3        \* create_vector_store(es_client, embeddings, index_name)

\* A Python call with positional arguments only: more arguments than the
\* function has parameters, or fewer than it requires, is a TypeError raised
\* at the call, before the body runs.
PyCall(nparams, nargs, result) ==
    IF nargs # nparams THEN Raised ELSE Returned(result)

(***************************************************************************)
(* text_splitter.py                                                        *)
(***************************************************************************)
DefaultChunkSize    == 800
DefaultChunkOverlap == 120

ChunkEnv == { [CHUNK_SIZE |-> NONE,  CHUNK_OVERLAP |-> NONE],
              [CHUNK_SIZE |-> "abc", CHUNK_OVERLAP |-> NONE],
              [CHUNK_SIZE |-> "100", CHUNK_OVERLAP |-> "120"] }

\* Raised stands for the ValueError of int() or of the splitter's constructor,
\* which rejects an overlap larger than the chunk size.
build_text_splitter(c) ==
    IF c.CHUNK_SIZE # NONE /\ ~IsIntLiteral(c.CHUNK_SIZE) THEN Raised
    ELSE IF c.CHUNK_OVERLAP # NONE /\ ~IsIntLiteral(c.CHUNK_OVERLAP) THEN Raised
    ELSE LET chunk_size == IF c.CHUNK_SIZE = NONE THEN DefaultChunkSize
                           ELSE IntOf(c.CHUNK_SIZE)
             chunk_overlap == IF c.CHUNK_OVERLAP = NONE THEN DefaultChunkOverlap
                              ELSE IntOf(c.CHUNK_OVERLAP)
         IN  IF chunk_overlap > chunk_size THEN Raised
             ELSE Returned([chunk_size |-> chunk_size,
                            chunk_overlap |-> chunk_overlap,
                            separators |-> <<"\n\n", "\n", " ", "">>])

(***************************************************************************)
(* pipeline_ingest.py: main                                                *)
(***************************************************************************)
Call(op, arg) == [op |-> op, arg |-> arg]

\* The TLS settings the runs of main are checked with: none set.  SpecTls
\* below runs create_es_client on every setting.
TlsEnvMain ==
    { [ES_VERIFY |-> NONE, ES_CA_PATH |-> NONE, ES_CA_BASE64 |-> NONE] }

\* The working variables of main before it starts.
Fresh ==
    /\ outcome = "running"
    /\ batch_size = 0
    /\ overlay_dirs = << >>
    /\ cur = 0
    /\ embeddings = Null
    /\ es_client = Null
    /\ splitter = Null
    /\ store = Null
    /\ files = << >>
    /\ pairs = << >>
    /\ texts = << >>
    /\ metas = << >>
    /\ loaded = << >>
    /\ calls = << >>
    /\ inserted = 0
    /\ bpos = 0
    /\ reports = << >>

Init ==
    /\ pc = "start"
    /\ Fresh
    /\ adds = << >>
    /\ prior = << >>
    /\ env \in Env
    /\ tlsEnv \in TlsEnvMain
    /\ baseExists \in BOOLEAN
    /\ baseEntries \in SUBSET BaseCatalogue
    /\ (~baseExists => baseEntries = {})

\* An exception leaves main.
Abort(exc) == pc' = "done" /\ outcome' = exc

\* Lines 83-87: load_dotenv, base_dir, batch_size = int(os.getenv("BATCH_SIZE", "128")).
ReadConfig ==
    /\ pc = "start"
    /\ LET raw == GetEnv(env.BATCH_SIZE, "128")
       IN  IF IsIntLiteral(raw)
           THEN /\ batch_size' = IntOf(raw)
                /\ pc' = "check_base"
                /\ UNCHANGED outcome
           ELSE /\ Abort("ValueError")
                /\ UNCHANGED batch_size
    /\ UNCHANGED << env, tlsEnv, baseExists, baseEntries, overlay_dirs, cur,
                    embeddings, es_client, splitter, store, files, pairs,
                    texts, metas, loaded, calls >>
    /\ UNCHANGED loopVars

\* As CheckBaseDir without the raise.
CheckBaseDirNoRaise ==
    /\ pc = "check_base"
    /\ pc' = "list"
    /\ UNCHANGED << outcome, env, tlsEnv, baseExists, baseEntries, batch_size,
                    overlay_dirs, cur, embeddings, es_client, splitter, store,
                    files, pairs, texts, metas, loaded, calls >>
    /\ UNCHANGED loopVars

\* Lines 89-90.
CheckBaseDir ==
    /\ pc = "check_base"
    /\ IF ~baseExists
       THEN Abort("FileNotFoundError")
       ELSE pc' = "list" /\ UNCHANGED outcome
    /\ UNCHANGED << env, tlsEnv, baseExists, baseEntries, batch_size, overlay_dirs,
                    cur, embeddings, es_client, splitter, store, files,
                    pairs, texts, metas, loaded, calls >>
    /\ UNCHANGED loopVars

\* Lines 92-95: iterdir yields the entries in any order.
ListOverlays ==
    /\ pc = "list"
    /\ \E listing \in Arrangements(baseEntries, Cardinality(baseEntries)) :
          /\ NoRepeat(listing)
          /\ Len(listing) = Cardinality(baseEntries)
          /\ overlay_dirs' = list_overlay_dirs(listing)
    /\ IF overlay_dirs' = << >>
       THEN /\ pc' = "done"
            /\ outcome' = "ok"
            /\ calls' = calls \o << Call("iterdir", "base"), Call("print", "no overlay") >>
       ELSE /\ pc' = "embeddings"
            /\ calls' = Append(calls, Call("iterdir", "base"))
            /\ UNCHANGED outcome
    /\ UNCHANGED << env, tlsEnv, baseExists, baseEntries, batch_size, cur,
                    embeddings, es_client, splitter, store, files, pairs,
                    texts, metas, loaded >>
    /\ UNCHANGED loopVars

\* Lines 97-98: loading the embedding model succeeds or raises.
CreateEmbeddings ==
    /\ pc = "embeddings"
    /\ calls' = Append(calls, Call("create_embeddings", "-"))
    /\ \E ok \in BOOLEAN :
          IF ok
          THEN /\ embeddings' = create_embeddings(NONE)
               /\ pc' = "connect"
               /\ UNCHANGED outcome
          ELSE /\ Abort("EmbeddingError")
               /\ UNCHANGED embeddings
    /\ UNCHANGED << env, tlsEnv, baseExists, baseEntries, batch_size, overlay_dirs,
                    cur, es_client, splitter, store, files, pairs, texts,
                    metas, loaded >>
    /\ UNCHANGED loopVars

\* Lines 100-101.
CreateEsClient ==
    /\ pc = "connect"
    /\ LET c == create_es_client(env, tlsEnv)
       IN  IF c.raised
           THEN /\ Abort("RuntimeError")
                /\ UNCHANGED << es_client, calls >>
           ELSE /\ es_client' = c.out
                /\ calls' = Append(calls, Call("connect", "-"))
                /\ pc' = "info"
                /\ UNCHANGED outcome
    /\ UNCHANGED << env, tlsEnv, baseExists, baseEntries, batch_size, overlay_dirs,
                    cur, embeddings, splitter, store, files, pairs, texts,
                    metas, loaded >>
    /\ UNCHANGED loopVars

\* As ProbeInfo without the try of lines 102-106: a probe that raises ends the run.
ProbeInfoFatal ==
    /\ pc = "info"
    /\ \E ok \in BOOLEAN :
          IF ok
          THEN /\ calls' = Append(calls, Call("info", "ok"))
               /\ pc' = "splitter"
               /\ UNCHANGED outcome
          ELSE /\ calls' = Append(calls, Call("info", "raises"))
               /\ Abort("ConnectionError")
    /\ UNCHANGED << env, tlsEnv, baseExists, baseEntries, batch_size,
                    overlay_dirs, cur, embeddings, es_client, splitter, store,
                    files, pairs, texts, metas, loaded >>
    /\ UNCHANGED loopVars

\* Lines 102-106: es_client.info() returns or raises; the exception is caught.
ProbeInfo ==
    /\ pc = "info"
    /\ \E ok \in BOOLEAN :
          calls' = IF ok THEN Append(calls, Call("info", "ok"))
                   ELSE calls \o << Call("info", "raises"), Call("warn", "info") >>
    /\ pc' = "splitter"
    /\ UNCHANGED << outcome, env, tlsEnv, baseExists, baseEntries, batch_size,
                    overlay_dirs, cur, embeddings, es_client, splitter, store,
                    files, pairs, texts, metas, loaded >>
    /\ UNCHANGED loopVars

\* Line 108, then the for loop of line 111 starts.
BuildSplitter ==
    /\ pc = "splitter"
    /\ \E c \in ChunkEnv :
          LET sp == build_text_splitter(c)
          IN  IF sp.raised
              THEN /\ Abort("ValueError")
                   /\ UNCHANGED << splitter, cur >>
              ELSE /\ splitter' = sp.out
                   /\ cur' = 1
                   /\ pc' = "loop"
                   /\ UNCHANGED outcome
    /\ UNCHANGED << env, tlsEnv, baseExists, baseEntries, batch_size, overlay_dirs,
                    embeddings, es_client, store, files, pairs, texts,
                    metas, loaded, calls >>
    /\ UNCHANGED loopVars

\* Lines 111-115 and 62-65: the next overlay; load_documents starts on it.  A
\* directory that no longer exists loads like one rglob finds nothing in.
BeginOverlay ==
    /\ pc = "loop"
    /\ cur <= Len(overlay_dirs)
    /\ files' = << >>
    /\ pairs' = << >>
    /\ texts' = << >>
    /\ metas' = << >>
    /\ calls' = Append(calls, Call("load", overlay_dirs[cur]))
    /\ pc' = "load"
    /\ UNCHANGED << outcome, env, tlsEnv, baseExists, baseEntries, batch_size,
                    overlay_dirs, cur, embeddings, es_client, splitter, store, loaded >>
    /\ UNCHANGED loopVars

\* The directory of the overlay is the one the run before this one found, if
\* there was a run before: rglob yields the same paths in the same order.  fs
\* is what rglob has yielded, and whole tells that rglob is exhausted.
SameDirectory(fs, whole) ==
    prior # << >> =>
        /\ Len(fs) <= Len(prior[1].files)
        /\ fs = SubSeq(prior[1].files, 1, Len(fs))
        /\ whole => Len(fs) = Len(prior[1].files)

\* Lines 65-77: rglob yields one more path fp, and the body of the loop runs on it.
LoadFile ==
    /\ pc = "load"
    /\ Len(files) < MaxFiles
    /\ \E fp \in FileCatalogue \ Range(files) :
          /\ SameDirectory(Append(files, fp), FALSE)
          /\ files' = Append(files, fp)
          /\ pairs' = LoadOne(fp, pairs)
          /\ calls' = IF fp.isFile /\ ReadFile(fp).raised
                      THEN Append(calls, Call("warn", fp.name))
                      ELSE calls
    /\ UNCHANGED << pc, outcome, env, tlsEnv, baseExists, baseEntries, batch_size,
                    overlay_dirs, cur, embeddings, es_client, splitter, store,
                    texts, metas, loaded >>
    /\ UNCHANGED loopVars

\* As EndLoad without the skip of an overlay that has no pairs.
EndLoadNoSkip ==
    /\ pc = "load"
    /\ SameDirectory(files, TRUE)
    /\ loaded' = Append(loaded, [index |-> overlay_dirs[cur], pairs |-> Len(pairs)])
    /\ pc' = "chunk"
    /\ UNCHANGED << outcome, env, tlsEnv, baseExists, baseEntries, batch_size,
                    overlay_dirs, cur, embeddings, es_client, splitter, store,
                    files, pairs, texts, metas, calls >>
    /\ UNCHANGED loopVars

\* Lines 78 and 116-120: rglob is exhausted and load_documents returns; an
\* overlay without pairs is skipped.
EndLoad ==
    /\ pc = "load"
    /\ SameDirectory(files, TRUE)
    /\ loaded' = Append(loaded, [index |-> overlay_dirs[cur], pairs |-> Len(pairs)])
    /\ IF pairs = << >>
       THEN /\ calls' = Append(calls, Call("print", "skip"))
            /\ cur' = cur + 1
            /\ pc' = "loop"
       ELSE /\ pc' = "chunk"
            /\ UNCHANGED << cur, calls >>
    /\ UNCHANGED << outcome, env, tlsEnv, baseExists, baseEntries, batch_size,
                    overlay_dirs, embeddings, es_client, splitter, store, files,
                    pairs, texts, metas >>
    /\ UNCHANGED loopVars

\* Lines 122-131.
ChunkDocs ==
    /\ pc = "chunk"
    /\ texts' = ChunkTexts(pairs, 1)
    /\ metas' = ChunkMetas(pairs, 1)
    /\ pc' = "store"
    /\ UNCHANGED << outcome, env, tlsEnv, baseExists, baseEntries, batch_size,
                    overlay_dirs, cur, embeddings, es_client, splitter, store,
                    files, pairs, loaded, calls >>
    /\ UNCHANGED loopVars

\* Lines 134-137: create_vector_store(es_client, embeddings, index_name).  The
\* call passes three arguments to a function of two parameters: it raises
\* TypeError, nothing catches it, and lines 136-145 (the insert loop and the
\* refresh) are not reached by any run.
OpenStore ==
    /\ pc = "store"
    /\ calls' = Append(calls, Call("create_vector_store", overlay_dirs[cur]))
    /\ LET r == PyCall(CreateVectorStoreParams, CreateVectorStoreArgs,
                       create_vector_store(es_client, embeddings, env))
       IN  IF r.raised
           THEN /\ Abort("TypeError")
                /\ UNCHANGED << store, inserted, bpos >>
           ELSE /\ store' = r.out[1]
                /\ inserted' = 0
                /\ bpos' = 0
                /\ pc' = "insert"
                /\ UNCHANGED outcome
    /\ UNCHANGED << env, tlsEnv, baseExists, baseEntries, batch_size, overlay_dirs,
                    cur, embeddings, es_client, splitter, files, pairs,
                    texts, metas, loaded, adds, reports, prior >>

\* batched, lines 17-19: the batch range() starts at offset pos (0-based).
batched(seq, size, pos) ==
    SubSeq(seq, pos + 1, IF pos + size < Len(seq) THEN pos + size ELSE Len(seq))

\* As ReportsProgress with the product of line 141 written without brackets:
\* inserted % batch_size * 5 == 0.
ReportsProgressUnbracketed(ins, size, total) ==
    (ins % size) * 5 = 0 \/ ins = total

\* Line 141.
ReportsProgress(ins, size, total) ==
    ins % (size * 5) = 0 \/ ins = total

\* Lines 138-142: one iteration of the loop over zip(batched(texts, batch_size),
\* batched(metas, batch_size)).  range(0, n, 0) raises ValueError when the
\* generator is first advanced; range(0, n, size) with size < 0 is empty.
InsertBatch ==
    /\ pc = "insert"
    /\ IF batch_size = 0
       THEN /\ Abort("ValueError")
            /\ UNCHANGED << inserted, bpos, adds, reports, calls >>
       ELSE /\ batch_size > 0
            /\ bpos < Len(texts)
            /\ LET t_batch == batched(texts, batch_size, bpos)
                   m_batch == batched(metas, batch_size, bpos)
               IN  /\ adds' = Append(adds, [index |-> store.index_name,
                                            texts |-> t_batch, metadatas |-> m_batch])
                   /\ inserted' = inserted + Len(t_batch)
                   /\ reports' =
                         IF ReportsProgress(inserted + Len(t_batch), batch_size, Len(texts))
                         THEN Append(reports, [after |-> Len(adds) + 1,
                                               inserted |-> inserted + Len(t_batch),
                                               total |-> Len(texts)])
                         ELSE reports
            /\ calls' = Append(calls, Call("insert", store.index_name))
            /\ bpos' = bpos + batch_size
            /\ UNCHANGED << pc, outcome >>
    /\ UNCHANGED << env, tlsEnv, baseExists, baseEntries, batch_size, overlay_dirs,
                    cur, embeddings, es_client, splitter, store, files, pairs,
                    texts, metas, loaded, prior >>

\* Lines 144-145, then the next iteration of the loop of line 111: the loop
\* over the batches is exhausted.
Refresh ==
    /\ pc = "insert"
    /\ batch_size # 0
    /\ batch_size < 0 \/ bpos >= Len(texts)
    /\ calls' = calls \o << Call("refresh", overlay_dirs[cur]),
                            Call("populated", overlay_dirs[cur]) >>
    /\ cur' = cur + 1
    /\ pc' = "loop"
    /\ UNCHANGED << outcome, env, tlsEnv, baseExists, baseEntries, batch_size,
                    overlay_dirs, embeddings, es_client, splitter, store, files,
                    pairs, texts, metas, loaded >>
    /\ UNCHANGED loopVars

\* Line 147: the loop is exhausted.
Finish ==
    /\ pc = "loop"
    /\ cur > Len(overlay_dirs)
    /\ calls' = Append(calls, Call("print", "done"))
    /\ pc' = "done"
    /\ outcome' = "ok"
    /\ UNCHANGED << env, tlsEnv, baseExists, baseEntries, batch_size, overlay_dirs,
                    cur, embeddings, es_client, splitter, store, files,
                    pairs, texts, metas, loaded >>
    /\ UNCHANGED loopVars

Next ==
    \/ ReadConfig
    \/ CheckBaseDir
    \/ ListOverlays
    \/ CreateEmbeddings
    \/ CreateEsClient
    \/ ProbeInfo
    \/ BuildSplitter
    \/ BeginOverlay
    \/ LoadFile
    \/ EndLoad
    \/ ChunkDocs
    \/ OpenStore
    \/ Finish

Spec == Init /\ [][Next]_vars

(***************************************************************************)
(* create_es_client on its own: main at line 101, for every setting of the *)
(* credentials and of the TLS variables.                                   *)
(***************************************************************************)
InitTls ==
    /\ pc = "connect"
    /\ outcome = "running"
    /\ env \in { e \in Env : e.BATCH_SIZE = NONE }
    /\ tlsEnv \in TlsEnv
    /\ baseExists = TRUE
    /\ baseEntries = { BaseEntry("diretrizes", TRUE) }
    /\ batch_size = DefaultBatchSize
    /\ overlay_dirs = <<"diretrizes">>
    /\ cur = 0
    /\ embeddings = create_embeddings(NONE)
    /\ es_client = Null
    /\ splitter = Null
    /\ store = Null
    /\ files = << >>
    /\ pairs = << >>
    /\ texts = << >>
    /\ metas = << >>
    /\ loaded = << >>
    /\ calls = << Call("iterdir", "base"), Call("create_embeddings", "-") >>
    /\ inserted = 0
    /\ bpos = 0
    /\ adds = << >>
    /\ reports = << >>
    /\ prior = << >>

NextTls == CreateEsClient

SpecTls == InitTls /\ [][NextTls]_vars

(***************************************************************************)
(* The program run twice on the same input: the environment and the base   *)
(* directory, which holds one overlay, are those of the first run, and the *)
(* index backend keeps what the first run inserted.                        *)
(***************************************************************************)
InitRerun ==
    /\ pc = "start"
    /\ Fresh
    /\ adds = << >>
    /\ prior = << >>
    /\ env \in Env
    /\ tlsEnv \in TlsEnvMain
    /\ baseExists = TRUE
    /\ baseEntries = { BaseEntry("diretrizes", TRUE), BaseEntry("README.md", FALSE) }

\* Lines 150-151 a second time: a new process runs main from line 82 on.  The
\* first run's overlay directory and chunk list are kept for comparison.
Rerun ==
    /\ pc = "done"
    /\ prior = << >>
    /\ prior' = << [files |-> files, texts |-> texts, outcome |-> outcome] >>
    /\ pc' = "start"
    /\ outcome' = "running"
    /\ batch_size' = 0
    /\ overlay_dirs' = << >>
    /\ cur' = 0
    /\ embeddings' = Null
    /\ es_client' = Null
    /\ splitter' = Null
    /\ store' = Null
    /\ files' = << >>
    /\ pairs' = << >>
    /\ texts' = << >>
    /\ metas' = << >>
    /\ loaded' = << >>
    /\ calls' = << >>
    /\ inserted' = 0
    /\ bpos' = 0
    /\ reports' = << >>
    /\ UNCHANGED << env, tlsEnv, baseExists, baseEntries, adds >>

NextRerun == Next \/ Rerun

SpecRerun == InitRerun /\ [][NextRerun]_vars

(***************************************************************************)
(* Lines 137-147 as a function of the chunk list and of BATCH_SIZE: the    *)
(* insert loop, the refresh and the end of the run, from the state line    *)
(* 134 would leave had create_vector_store returned its store.             *)
(***************************************************************************)
MaxChunks == 6      \* chunks of the chunk list of the target

\* int(BATCH_SIZE)
BatchSizes == {-1, 0, 1, 2, 3, 5}

InitBatch ==
    /\ pc = "insert"
    /\ outcome = "running"
    /\ batch_size \in BatchSizes
    /\ env = [BATCH_SIZE |-> ToString(batch_size), ES_URL |-> "set", ES_USER |-> "set",
              ES_PASS |-> "set", ES_INDEX |-> NONE]
    /\ tlsEnv \in TlsEnvMain
    /\ baseExists = TRUE
    /\ baseEntries = { BaseEntry("diretrizes", TRUE) }
    /\ overlay_dirs = <<"diretrizes">>
    /\ cur = 1
    /\ embeddings = create_embeddings(NONE)
    /\ es_client = create_es_client(env, tlsEnv).out
    /\ splitter = build_text_splitter([CHUNK_SIZE |-> NONE, CHUNK_OVERLAP |-> NONE]).out
    /\ store = create_vector_store(es_client, embeddings, env)[1]
    /\ \E n \in 1..MaxChunks :
          /\ files = << File("items.json", TRUE, ".json", TRUE, << >>, "",
                             [kind |-> "list", dumps |-> [k \in 1..n |-> "1"]]) >>
          /\ pairs = read_json(files[1]).out
    /\ texts = ChunkTexts(pairs, 1)
    /\ metas = ChunkMetas(pairs, 1)
    /\ loaded = << [index |-> "diretrizes", pairs |-> Len(pairs)] >>
    /\ calls = << >>
    /\ inserted = 0
    /\ bpos = 0
    /\ adds = << >>
    /\ reports = << >>
    /\ prior = << >>

NextBatch == InsertBatch \/ Refresh \/ Finish

SpecBatch == InitBatch /\ [][NextBatch]_vars

(***************************************************************************)
(* The loaders as functions of one file: load_documents reads one path of  *)
(* a bounded set of JSON and PDF files.                                    *)
(***************************************************************************)
SeqsUpTo(S, n) == UNION { [1..k -> S] : k \in 0..n }

\* What json.dumps returns for an element of the array (json.dumps of a
\* parsed value is never blank), or the call raises.
DumpVals == {"1", "\"\"", RAISES}

\* What extract_text() returns for a page, or the call raises.
PageVals == {"alpha", " ", "", NONE, RAISES}

\* JSON files: an array of up to MaxItems elements, a document that is not
\* an array (json.dumps of a parsed document returns), an unparsable file;
\* each readable or not.
JsonInputs ==
    { File("in.json", TRUE, ".json", op, << >>, "", [kind |-> "list", dumps |-> d]) :
          op \in BOOLEAN, d \in SeqsUpTo(DumpVals, MaxItems) }
    \cup { File("in.json", TRUE, ".json", op, << >>, "", [kind |-> "object", dumps |-> <<v>>]) :
              op \in BOOLEAN, v \in DumpVals \ {RAISES} }
    \cup { File("in.json", TRUE, ".json", op, << >>, "", [kind |-> "invalid", dumps |-> << >>]) :
              op \in BOOLEAN }

\* PDF files of up to MaxPages pages, each readable by PdfReader or not.
PdfInputs ==
    { File("in.pdf", TRUE, ".pdf", op, pg, "", NoJson) :
          op \in BOOLEAN, pg \in SeqsUpTo(PageVals, MaxPages) }

InitRead ==
    /\ pc = "read"
    /\ outcome = "running"
    /\ env \in { e \in Env : \A k \in DOMAIN e : e[k] = NONE }
    /\ tlsEnv \in TlsEnvMain
    /\ baseExists = TRUE
    /\ baseEntries = { BaseEntry("diretrizes", TRUE) }
    /\ batch_size = DefaultBatchSize
    /\ overlay_dirs = <<"diretrizes">>
    /\ cur = 1
    /\ embeddings = Null
    /\ es_client = Null
    /\ splitter = Null
    /\ store = Null
    /\ \E f \in JsonInputs \cup PdfInputs : files = <<f>>
    /\ pairs = << >>
    /\ texts = << >>
    /\ metas = << >>
    /\ loaded = << >>
    /\ calls = << >>
    /\ inserted = 0
    /\ bpos = 0
    /\ adds = << >>
    /\ reports = << >>
    /\ prior = << >>

\* load_documents, lines 68-77, for the one path: the loader's fragments, or
\* its exception caught and logged.
ReadOne ==
    /\ pc = "read"
    /\ LET r == ReadFile(files[1])
       IN  /\ pairs' = LoadOne(files[1], pairs)
           /\ outcome' = IF r.raised THEN "raised" ELSE "returned"
    /\ pc' = "read_done"
    /\ UNCHANGED << env, tlsEnv, baseExists, baseEntries, batch_size, overlay_dirs,
                    cur, embeddings, es_client, splitter, store, files, texts,
                    metas, loaded, calls >>
    /\ UNCHANGED loopVars

NextRead == ReadOne

SpecRead == InitRead /\ [][NextRead]_vars

(***************************************************************************)
(* Properties.                                                             *)
(***************************************************************************)
Done == pc = "done"

\* The positions of the log that hold a call of one of ops.
CallsOf(ops) == { j \in DOMAIN calls : calls[j].op \in ops }

\* The positions of the log that hold a call of one of ops on index name n.
CallsOn(ops, n) == { j \in DOMAIN calls : calls[j].op \in ops /\ calls[j].arg = n }

BackendOps == {"connect", "info", "create_vector_store", "insert", "refresh"}
IndexOps   == {"create_vector_store", "insert", "refresh"}

NoSubdirectories == baseExists /\ \A e \in baseEntries : ~e.isDir

BatchSizeIsInteger ==
    env.BATCH_SIZE \in {NONE, "128", "2", "-1"}

AnyCredentialUnset ==
    env.ES_URL = NONE \/ env.ES_USER = NONE \/ env.ES_PASS = NONE

\* C1 (as stated): when the base directory exists and has no immediate
\* sub-directory, the run makes no insert call, opens no index, calls no
\* refresh and exits successfully, whatever the rest of the configuration is.
C1_AnyConfiguration ==
    (NoSubdirectories /\ Done) =>
        /\ outcome = "ok"
        /\ CallsOf(IndexOps) = {}

\* C1 (amended): when the base directory exists and has no immediate
\* sub-directory, no run constructs the embedding client, connects, loads,
\* opens an index, inserts or refreshes, and the run exits successfully when
\* BATCH_SIZE is unset or an integer literal; with any other BATCH_SIZE it ends
\* with the ValueError of line 87.
C1_NoOverlayNoWork ==
    NoSubdirectories =>
        /\ CallsOf(BackendOps \cup {"create_embeddings", "load"}) = {}
        /\ embeddings = Null /\ es_client = Null /\ store = Null
        /\ Done => outcome = IF BatchSizeIsInteger THEN "ok" ELSE "ValueError"

\* A base directory holding only a plain file, no credentials: the run returned.
C1_Witness ==
    /\ NoSubdirectories
    /\ baseEntries # {}
    /\ AnyCredentialUnset
    /\ Done
    /\ outcome = "ok"
    /\ calls = << Call("iterdir", "base"), Call("print", "no overlay") >>

CurrentOverlay == overlay_dirs[cur]

\* C3: for an overlay that yields at least one fragment, the store of line 134
\* is bound to the index named like the overlay directory, so that every
\* insert and the refresh that follows go to that index and to no other.
C3_StoreBoundToOverlayName ==
    CallsOf({"create_vector_store"}) # {} =>
        /\ store # Null
        /\ store.index_name = CurrentOverlay

\* C4: the targets are processed in ascending order of name, and once the
\* processing of a target that has at least one fragment is over, refresh was
\* called exactly once on its index.
C4_RefreshOncePerTarget ==
    /\ \A i, j \in DOMAIN loaded :
          i < j => NameRank(loaded[i].index) < NameRank(loaded[j].index)
    /\ \A i \in DOMAIN loaded :
          (loaded[i].pairs > 0 /\ (Done \/ i < Len(loaded))) =>
              Cardinality(CallsOn({"refresh"}, loaded[i].index)) = 1

\* C5: a target whose load yields no fragment is skipped: no store is opened,
\* no insert and no refresh is made on its index, the loop moves to the next
\* target, and a run that ends normally has loaded every target after it.
C5_EmptyTargetSkipped ==
    \A i \in DOMAIN loaded :
        loaded[i].pairs = 0 =>
            /\ CallsOn(IndexOps, loaded[i].index) = {}
            /\ loaded[i].index = overlay_dirs[i]
            /\ cur > i \/ (cur = i /\ pc = "load")
            /\ (Done /\ outcome = "ok") =>
                   \A k \in i..Len(overlay_dirs) :
                       CallsOn({"load"}, overlay_dirs[k]) # {}

\* The first of two targets was empty and skipped, the second was loaded.
C5_Witness ==
    /\ Len(overlay_dirs) = 2
    /\ Len(loaded) = 2
    /\ loaded[1].pairs = 0
    /\ loaded[2].pairs > 0
    /\ files # << >>

CeilDiv(n, b) == (n + b - 1) \div b

\* C6: for a chunk list of n >= 1 chunks and a batch size B >= 1, a run whose
\* processing of the target is over has made exactly ceil(n/B) insert calls.
C6_CeilBatchesInserted ==
    (Done /\ texts # << >> /\ batch_size >= 1) =>
        Cardinality(CallsOf({"insert"})) = CeilDiv(Len(texts), batch_size)

\* C7: a call to the index backend that raises while one target is processed
\* aborts that target only: every target later in sorted order is still loaded.
C7_FailureAbortsOneTarget ==
    (Done /\ outcome = "TypeError") =>
        \A k \in DOMAIN overlay_dirs : CallsOn({"load"}, overlay_dirs[k]) # {}

\* What each file of the catalogue contributes when it is read without a
\* failure, and the files whose reading raises.
FragmentsOf(name) ==
    CASE name = "a.pdf"      -> 2
      [] name = "n.txt"      -> 1
      [] name = "items.json" -> 2
      [] name = "obj.json"   -> 1
      [] OTHER               -> 0

RaisingFiles == {"bad.PDF", "locked.txt"}

RECURSIVE ExpectedSources(_)
ExpectedSources(fs) ==
    IF fs = << >> THEN << >>
    ELSE [k \in 1..FragmentsOf(Head(fs).name) |-> Head(fs).name]
             \o ExpectedSources(Tail(fs))

\* C8: in load_documents a file whose reading raises contributes no fragment,
\* the fragments of the files before it are kept, the files after it are
\* still read, and load_documents returns: pairs holds, in order, exactly the
\* fragments of the files visited so far that read without a failure, no
\* exception leaves the loop, and the return of line 78 stays reachable.
C8_FileFailureIsolated ==
    /\ [i \in DOMAIN pairs |-> pairs[i][2].source] = ExpectedSources(files)
    /\ pc = "load" => (outcome = "running" /\ ENABLED EndLoad)
    /\ \A i \in DOMAIN files :
          files[i].name \in RaisingFiles =>
              /\ CallsOn({"warn"}, files[i].name) # {}
              /\ \A j \in DOMAIN pairs : pairs[j][2].source # files[i].name

\* A file that raises was read first, the next file was read after it, and
\* load_documents returned its fragments.
C8_Witness ==
    /\ pc = "chunk"
    /\ Len(files) = 2
    /\ files[1].name \in RaisingFiles
    /\ pairs # << >>

\* C9: when the base directory does not exist, main raises before it lists
\* overlays, constructs the embedding client, connects, inserts or refreshes.
C9_MissingBaseDirectory ==
    ~baseExists =>
        /\ calls = << >>
        /\ overlay_dirs = << >>
        /\ embeddings = Null /\ es_client = Null /\ store = Null
        /\ pc \in {"start", "check_base", "done"}
        /\ Done => outcome = IF BatchSizeIsInteger THEN "FileNotFoundError"
                             ELSE "ValueError"

C9_Witness ==
    /\ ~baseExists
    /\ Done
    /\ outcome = "FileNotFoundError"

VerifyRequested == tlsEnv.ES_VERIFY \in {"true", "True", "TRUE"}
CaPathUsable    == tlsEnv.ES_CA_PATH = "/ca/ok.pem"

\* C10: the TLS policy of the client follows the priority (a) verification
\* off: no certificate validation whatever the CA settings; (b) else a CA
\* path that is set and exists: verify with that file; (c) else a base64 CA:
\* verify with the decoded temporary file, or with no explicit CA when decoding
\* fails; (d) else verify with the default trust store.  Verification is never
\* off when ES_VERIFY is true.
C10_TlsPriority ==
    es_client # Null =>
        LET k == es_client.tls
        IN  /\ ~VerifyRequested => k = [verify_certs |-> FALSE, ssl_show_warn |-> TRUE]
            /\ VerifyRequested => k.verify_certs
            /\ (VerifyRequested /\ CaPathUsable) =>
                   k = [verify_certs |-> TRUE, ca_certs |-> tlsEnv.ES_CA_PATH]
            /\ (VerifyRequested /\ ~CaPathUsable /\ tlsEnv.ES_CA_BASE64 = "b64-pem") =>
                   k = [verify_certs |-> TRUE, ca_certs |-> TmpPem]
            /\ (VerifyRequested /\ ~CaPathUsable /\ tlsEnv.ES_CA_BASE64 = "b64-broken") =>
                   k = [verify_certs |-> TRUE]
            /\ (VerifyRequested /\ ~CaPathUsable /\ tlsEnv.ES_CA_BASE64 \in {NONE, ""}) =>
                   k = [verify_certs |-> TRUE]

\* Verification on, a usable CA path and a base64 CA both set: the path wins.
C10_Witness ==
    /\ es_client # Null
    /\ tlsEnv = [ES_VERIFY |-> "TRUE", ES_CA_PATH |-> "/ca/ok.pem",
                 ES_CA_BASE64 |-> "b64-pem"]
    /\ es_client.tls = [verify_certs |-> TRUE, ca_certs |-> "/ca/ok.pem"]

\* The number of chunks the splitter cuts a text of the model into.
ChunksOf(text) == IF text = "long text" THEN 2 ELSE 1

\* For each chunk of the chunk list of ps, in order, the position in ps of
\* the fragment it is cut from, and its position among that fragment's chunks.
RECURSIVE ChunkOwners(_, _)
ChunkOwners(ps, i) ==
    IF i > Len(ps) THEN << >>
    ELSE [k \in 1..ChunksOf(ps[i][1]) |-> [fragment |-> i, part |-> k]]
             \o ChunkOwners(ps, i + 1)

ReadInput == files[1]
ReadOver == pc = "read_done"

\* The positions of a sequence whose entry is a text that is not blank.
TextPositions(seq) ==
    { k \in DOMAIN seq : seq[k] \notin {RAISES, NONE} /\ ~IsBlank(seq[k]) }

\* C12: a JSON file whose top level is an array of N elements yields at most
\* N fragments, in array order, each with item equal to the zero-based
\* position of its element (the position of a skipped element is not
\* reused); an element that fails to serialize is skipped and the others are
\* kept.  A file whose top level is not a list yields exactly one fragment
\* with source and no item.  A file that fails to parse yields zero
\* fragments and nothing is raised.
C12_JsonFragments ==
    ReadOver /\ ReadInput.sfx = ".json" =>
        LET f == ReadInput
            D == f.json.dumps
        IN  /\ outcome = "returned"
            /\ ~f.opens \/ f.json.kind = "invalid" => pairs = << >>
            /\ f.opens /\ f.json.kind = "list" =>
                  /\ Len(pairs) <= Len(D)
                  /\ \A i \in DOMAIN pairs :
                        /\ DOMAIN pairs[i][2] = {"source", "item"}
                        /\ pairs[i][2].source = f.name
                        /\ pairs[i][2].item + 1 \in TextPositions(D)
                        /\ pairs[i][1] = D[pairs[i][2].item + 1]
                  /\ \A i, j \in DOMAIN pairs :
                        i < j => pairs[i][2].item < pairs[j][2].item
                  /\ \A k \in TextPositions(D) :
                        \E i \in DOMAIN pairs : pairs[i][2].item = k - 1
            /\ f.opens /\ f.json.kind = "object" =>
                  /\ Len(pairs) = 1
                  /\ DOMAIN pairs[1][2] = {"source"}
                  /\ pairs[1][2].source = f.name
                  /\ pairs[1][1] = D[1]

\* An array whose second element fails to serialize: the first and the third
\* are fragments with items 0 and 2.
C12_Witness ==
    /\ ReadOver
    /\ ReadInput.sfx = ".json"
    /\ ReadInput.json.kind = "list"
    /\ Len(ReadInput.json.dumps) = 3
    /\ ReadInput.json.dumps[2] = RAISES
    /\ Len(pairs) = 2
    /\ pairs[2][2].item = 2

\* C13: read_pdf emits one fragment per page whose extracted text is not
\* blank and none for a page whose text is empty, whitespace or missing; the
\* page value of a fragment is the 1-based position of its page in the
\* document, blank pages counted; fragments are in page order.  Stated of a
\* read that returns.
C13_PdfFragments ==
    ReadOver /\ ReadInput.sfx = ".pdf" /\ outcome = "returned" =>
        LET f == ReadInput
        IN  /\ \A i \in DOMAIN pairs :
                  /\ pairs[i][2] = [source |-> f.name, page |-> pairs[i][2].page]
                  /\ pairs[i][2].page \in TextPositions(f.pages)
                  /\ pairs[i][1] = f.pages[pairs[i][2].page]
            /\ \A i, j \in DOMAIN pairs :
                  i < j => pairs[i][2].page < pairs[j][2].page
            /\ \A k \in TextPositions(f.pages) :
                  \E i \in DOMAIN pairs : pairs[i][2].page = k

\* A document whose first page is blank or missing and whose third page has
\* text: that fragment is page 3.
C13_Witness ==
    /\ ReadOver
    /\ ReadInput.sfx = ".pdf"
    /\ outcome = "returned"
    /\ Len(ReadInput.pages) = 3
    /\ ReadInput.pages[1] \in {" ", NONE}
    /\ \E i \in DOMAIN pairs : pairs[i][2].page = 3

\* The chunks the first k insert calls passed to the store.
RECURSIVE InsertedBy(_)
InsertedBy(k) == IF k = 0 THEN 0 ELSE Len(adds[k].texts) + InsertedBy(k - 1)

\* C15: with a batch size B >= 1, progress is reported after the k-th insert
\* call exactly when k is a multiple of 5 or the k-th batch is the last batch
\* of the target, and the count reported is the number of chunks inserted so
\* far.
C15_ProgressReports ==
    batch_size >= 1 =>
        /\ \A k \in DOMAIN adds :
              (\E i \in DOMAIN reports : reports[i].after = k)
                  <=> (k % 5 = 0 \/ k = CeilDiv(Len(texts), batch_size))
        /\ \A i \in DOMAIN reports :
              /\ reports[i].after \in DOMAIN adds
              /\ reports[i].inserted = InsertedBy(reports[i].after)
        /\ \A i, j \in DOMAIN reports : i < j => reports[i].after < reports[j].after

\* Six batches of one chunk: progress was reported after the fifth batch and
\* after the sixth, the last one, and after no other.
C15_Witness ==
    /\ batch_size = 1
    /\ Len(adds) = 6
    /\ Len(reports) = 2
    /\ reports[1].after = 5
    /\ reports[1].inserted = 5
    /\ reports[2].after = 6
    /\ Done

RECURSIVE InsertedInto(_, _)
InsertedInto(n, k) ==
    IF k > Len(adds) THEN << >>
    ELSE (IF adds[k].index = n THEN adds[k].texts ELSE << >>) \o InsertedInto(n, k + 1)

\* How many entries of seq are x.
CountIn(seq, x) == Cardinality({ i \in DOMAIN seq : seq[i] = x })

\* C14: the run is append-only and not idempotent: once the program has run
\* twice on the same unchanged input, the index of a target holds twice the
\* entries of one run, every chunk of the target twice.
C14_SecondRunDuplicates ==
    (prior # << >> /\ Done /\ texts # << >> /\ texts = prior[1].texts) =>
        LET held == InsertedInto(CurrentOverlay, 1)
        IN  /\ Len(held) = 2 * Len(texts)
            /\ \A k \in DOMAIN texts : CountIn(held, texts[k]) = 2 * CountIn(texts, texts[k])

\* C16: the chunk list and the metadata list belong to one target and are not
\* kept: the chunks inserted into a target's index are the chunks cut from
\* the fragments loaded from that target's directory, and no chunk of an
\* overlay processed before is in the insert calls of a later one.
C16_OwnChunksInserted ==
    (Done /\ texts # << >>) =>
        /\ InsertedInto(CurrentOverlay, 1) = ChunkTexts(pairs, 1)
        /\ \A k \in DOMAIN adds : adds[k].index = CurrentOverlay

\* The probe of line 103 raised in this run.
ProbeFailed == CallsOn({"info"}, "raises") # {}

\* C18: a failure of the cluster info probe is not fatal: whether info()
\* returns or raises, the step leaves the run at line 108 with the same
\* program state, a raise adding only a warning to the log, so the overlays
\* are processed as they are after a probe that succeeded.
C18_ProbeFailureNonFatal ==
    [][pc = "info" =>
          /\ pc' = "splitter"
          /\ outcome' = "running"
          /\ \/ calls' = Append(calls, Call("info", "ok"))
             \/ calls' = calls \o << Call("info", "raises"), Call("warn", "info") >>
          /\ UNCHANGED << env, tlsEnv, baseExists, baseEntries, batch_size,
                          overlay_dirs, cur, embeddings, es_client, splitter,
                          store, files, pairs, texts, metas, loaded, inserted,
                          bpos, adds, reports, prior >>]_vars

\* The probe raised, the warning was logged, and the run went on to load two
\* overlays and to end normally.
C18_Witness ==
    /\ ProbeFailed
    /\ CallsOn({"warn"}, "info") # {}
    /\ Cardinality(CallsOf({"load"})) = 2
    /\ Len(overlay_dirs) = 2
    /\ Done
    /\ outcome = "ok"

=============================================================================
